---------------------------- MODULE Spec2Model ----------------------------
(***************************************************************************)
(* Travel-time graphs by hour and weekday, landmark degrees and the        *)
(* simulation of multi-stop tourist routes (analyze_node_degrees.py and    *)
(* analyze_routes.py).                                                     *)
(*                                                                         *)
(* Times.  The scripts hold a travel time as float minutes obtained from   *)
(* a whole number of seconds (total_seconds() / 60.0).  The model holds    *)
(* every time as that whole number of seconds ("ticks", Sec per minute),   *)
(* so `total_time // 60` (minutes to whole hours) is a division by         *)
(* 60 * Sec, and round(x, 2) is a rounding to a hundredth of a minute.     *)
(* Float rounding error of the additions is not modelled.                  *)
(***************************************************************************)
EXTENDS Integers, Sequences, FiniteSets, TLC

VARIABLES
    \* ---- analyze_routes.py ----
    pc,             \* position of the route script / of evaluate_routes
    graphs,         \* the slot-graph index handed to evaluate_routes
    comboIdx,       \* 1-based position in the start_time x day x route loops
    route_info,     \* evaluate_routes: rows collected so far
    route,          \* calculate_route_time: argument
    start_time,     \* calculate_route_time: argument
    day,            \* calculate_route_time: argument
    leg,            \* calculate_route_time: loop variable i
    total_time,     \* calculate_route_time: local
    time_on_road,   \* calculate_route_time: local
    arrival_times,  \* calculate_route_time: local
    legLog,         \* calculate_route_time: per leg, the locals current_hour,
                    \* graph_key and G of that leg and the total_time it began with
    result,         \* value returned by calculate_route_time
    raised,         \* exception that left evaluate_routes / main, or None
    \* ---- analyze_node_degrees.py ----
    dpc,            \* position of the degree script
    df,             \* the trip table after load_data
    route_stats,    \* build_graphs: the route-stat table
    block_positions,\* build_graphs: the known blocks
    slotIdx,        \* compute_node_degrees: 1-based position in hour x day
    G,              \* compute_node_degrees: the graph of the last slot built
    node_degrees    \* compute_node_degrees: rows collected so far

routeVars == <<pc, graphs, comboIdx, route_info, route, start_time, day, leg,
               total_time, time_on_road, arrival_times, legLog, result, raised>>
degreeVars == <<dpc, df, route_stats, block_positions, slotIdx, G, node_degrees>>
vars == <<routeVars, degreeVars>>

\* Python's None (a record, so that it compares with graphs and results).
None == [none |-> TRUE]
IsNone(v) == DOMAIN v = {"none"}
NoException == "none"

---------------------------------------------------------------------------
(* Configuration                                                           *)

TS  == "10113001008"
ES  == "10076001001"
MET == "10143001021"

TARGET_NODES == <<TS, ES, MET>>
DAYS_OF_WEEK == <<"Monday", "Saturday">>
FirstHour == 10
LastHour == 21
HOURS == [k \in 1..(LastHour - FirstHour + 1) |-> FirstHour + k - 1]
POSSIBLE_ROUTES ==
    << <<TS, ES, MET>>, <<TS, MET, ES>>, <<ES, TS, MET>>,
       <<ES, MET, TS>>, <<MET, TS, ES>>, <<MET, ES, TS>> >>
START_TIMES == <<10, 12, 14, 16>>

\* ticks (seconds) per minute: travel_time = total_seconds() / 60.0
Sec == 60
MinPerHour == 60
HoursPerDay == 24
DwellTS == 30
DwellES == 120
DwellMET == 180

\* Blocks other than the landmarks that the trips may mention.
NumExtra == 3
ExtraBlock(k) == "1000" \o ToString(k) \o "001000"
Extras == {ExtraBlock(k) : k \in 1..NumExtra}
Blocks == {TS, ES, MET} \cup Extras

Range(s) == {s[k] : k \in DOMAIN s}

---------------------------------------------------------------------------
(* networkx.Graph: a node set and one weight per unordered pair of nodes   *)
(* (a one-element set is a self-loop).                                     *)

EmptyGraph == [nodes |-> {}, w |-> <<>>]

add_node(g, n) == [g EXCEPT !.nodes = @ \cup {n}]

\* An add_edge that leaves the weight of an edge already there as it is.
add_edge_KeepFirst(g, u, v, wt) ==
    [nodes |-> g.nodes \cup {u, v},
     w |-> [e \in DOMAIN g.w \cup {{u, v}} |->
               IF e \in DOMAIN g.w THEN g.w[e] ELSE wt]]

\* add_edge(u, v, weight=wt): both ends become nodes; an edge already there
\* keeps its place and has its weight overwritten.
add_edge(g, u, v, wt) ==
    [nodes |-> g.nodes \cup {u, v},
     w |-> [e \in DOMAIN g.w \cup {{u, v}} |-> IF e = {u, v} THEN wt ELSE g.w[e]]]

Neighbors(g, n) == {m \in g.nodes : {n, m} \in DOMAIN g.w}

\* G.degree(n): the number of edge ends at n, so a self-loop counts twice.
degree(g, n) ==
    Cardinality(Neighbors(g, n)) + (IF {n} \in DOMAIN g.w THEN 1 ELSE 0)

\* A test for None alone (`G is None`).
Falsy_NoneOnly(g) == IsNone(g)

\* `not G` : a Graph is falsy when it has no node (len(G) == 0).
Falsy(g) == IsNone(g) \/ g.nodes = {}

\* graphs.get(key)
DictGet(d, key) == IF key \in DOMAIN d THEN d[key] ELSE None

\* f"{hour}_{day}" with an int hour
GraphKey(hour, d) == ToString(hour) \o "_" \o d

(* nx.dijkstra_path_length(G, source, target, weight='weight'): `dist` holds  *)
(* the final distances, `seen` the tentative ones; the closest node of the   *)
(* fringe is finalized and its edges relaxed, until the target is finalized  *)
(* or the fringe is empty.                                                   *)
RECURSIVE DijkstraLoop(_, _, _, _)
DijkstraLoop(g, target, dist, seen) ==
    LET fringe == DOMAIN seen \ DOMAIN dist IN
    IF fringe = {} THEN dist
    ELSE LET v == CHOOSE n \in fringe : \A m \in fringe : seen[n] <= seen[m]
             d == seen[v]
             dist2 == [n \in DOMAIN dist \cup {v} |-> IF n = v THEN d ELSE dist[n]]
             open == Neighbors(g, v) \ DOMAIN dist2
             relax == {u \in open : u \notin DOMAIN seen \/ d + g.w[{v, u}] < seen[u]}
             seen2 == [u \in DOMAIN seen \cup relax |->
                          IF u \in relax THEN d + g.w[{v, u}] ELSE seen[u]]
         IN IF v = target THEN dist2 ELSE DijkstraLoop(g, target, dist2, seen2)

\* A search that keeps the first distance it sees for a node and never
\* lowers it when a shorter way turns up.
RECURSIVE FirstSeenLoop(_, _, _, _)
FirstSeenLoop(g, target, dist, seen) ==
    LET fringe == DOMAIN seen \ DOMAIN dist IN
    IF fringe = {} THEN dist
    ELSE LET v == CHOOSE n \in fringe : \A m \in fringe : seen[n] <= seen[m]
             d == seen[v]
             dist2 == [n \in DOMAIN dist \cup {v} |-> IF n = v THEN d ELSE dist[n]]
             fresh == (Neighbors(g, v) \ DOMAIN dist2) \ DOMAIN seen
             seen2 == [u \in DOMAIN seen \cup fresh |->
                          IF u \in fresh THEN d + g.w[{v, u}] ELSE seen[u]]
         IN IF v = target THEN dist2 ELSE FirstSeenLoop(g, target, dist2, seen2)

dijkstra_first_seen(g, source, target) ==
    IF source \notin g.nodes THEN [exc |-> "NodeNotFound"]
    ELSE IF source = target THEN [len |-> 0]
    ELSE LET dist == FirstSeenLoop(g, target, <<>>, [n \in {source} |-> 0])
         IN IF target \in DOMAIN dist THEN [len |-> dist[target]]
            ELSE [exc |-> "NetworkXNoPath"]

dijkstra_path_length(g, source, target) ==
    IF source \notin g.nodes THEN [exc |-> "NodeNotFound"]
    ELSE IF source = target THEN [len |-> 0]
    ELSE LET dist == DijkstraLoop(g, target, <<>>, [n \in {source} |-> 0])
         IN IF target \in DOMAIN dist THEN [len |-> dist[target]]
            ELSE [exc |-> "NetworkXNoPath"]

---------------------------------------------------------------------------
(* analyze_routes.py: calculate_route_time and evaluate_routes              *)

\* One visit time for whatever block is reached.
Dwell_Flat(to_block) == DwellTS * Sec

\* The visit time added on reaching to_block (lines 117-122), in ticks.
Dwell(to_block) ==
    IF to_block = TS THEN DwellTS * Sec
    ELSE IF to_block = ES THEN DwellES * Sec
    ELSE IF to_block = MET THEN DwellMET * Sec
    ELSE 0

\* start_time + (total_time // 60): whole hours since midnight of the start day
HoursElapsed(start, total) == start + (total \div (MinPerHour * Sec))

\* The hours since midnight of the start day, not wrapped at 24.
CurrentHour_NoWrap(start, total) == HoursElapsed(start, total)

\* The hour of the start, whatever time has passed since.
CurrentHour_StartOnly(start, total) == start % HoursPerDay

\* int(start_time + (total_time // 60)) % 24
CurrentHour(start, total) == HoursElapsed(start, total) % HoursPerDay

\* round(time_on_road, 2): ticks to hundredths of a minute, to the nearest
\* (5t/3 is never half-way between two integers).
Round2(t) == (10 * t + 3) \div 6

\* The loops of evaluate_routes, flattened: start_time, then day, then route.
NumCombos == Len(START_TIMES) * Len(DAYS_OF_WEEK) * Len(POSSIBLE_ROUTES)
ComboStart(c) ==
    START_TIMES[((c - 1) \div (Len(DAYS_OF_WEEK) * Len(POSSIBLE_ROUTES))) + 1]
ComboDay(c) ==
    DAYS_OF_WEEK[(((c - 1) \div Len(POSSIBLE_ROUTES)) % Len(DAYS_OF_WEEK)) + 1]
ComboRouteIdx(c) == ((c - 1) % Len(POSSIBLE_ROUTES)) + 1

RouteRow(idx, start, d, tor, arrivals) ==
    <<"Route " \o ToString(idx), start, d, Round2(tor)>> \o arrivals

\* The visit time left out of total_time.
AfterLegTotal_NoDwell(total, path_time, to_block) == total + path_time

\* Line 113 and lines 117-122: total_time after a leg.
AfterLegTotal(total, path_time, to_block) == total + path_time + Dwell(to_block)

\* Line 114: time_on_road after a leg.
AfterLegRoad(road, path_time) == road + path_time

\* The hours since midnight of the start day, not wrapped.
ArrivalHour_NoWrap(start, total) == HoursElapsed(start, total)

\* Line 124: (start_time + (total_time // 60)) % 24
ArrivalHour(start, total) == HoursElapsed(start, total) % HoursPerDay

\* Lines 104-124, the body of the loop for leg i (1-based): what it does to the
\* locals, or how it leaves the function.  `locals` are current_hour,
\* graph_key, G and the total_time they were computed from.
LegOutcome(rt, start, d, index, i, total, road, arrivals) ==
    LET from_block == rt[i]
        to_block == rt[i + 1]
        current_hour == CurrentHour(start, total)
        graph_key == GraphKey(current_hour, d)
        g == DictGet(index, graph_key)
        locals == [current_hour |-> current_hour, graph_key |-> graph_key,
                   G |-> g, total_time |-> total]
    IN IF Falsy(g) THEN [kind |-> "return_none", locals |-> locals]
       ELSE LET p == dijkstra_path_length(g, from_block, to_block) IN
            IF "exc" \in DOMAIN p
            THEN [kind |-> "raise", exc |-> p.exc, locals |-> locals]
            ELSE LET total2 == AfterLegTotal(total, p.len, to_block) IN
                 [kind |-> "next", locals |-> locals,
                  total_time |-> total2,
                  time_on_road |-> AfterLegRoad(road, p.len),
                  arrival_times |-> Append(arrivals, ArrivalHour(start, total2))]

\* calculate_route_time(route, start_time, day, graphs) as a function: the
\* legs from leg i on, then the return of line 126.
RECURSIVE WalkFrom(_, _, _, _, _, _, _, _)
WalkFrom(rt, start, d, index, i, total, road, arrivals) ==
    IF i >= Len(rt)
    THEN [kind |-> "return",
          value |-> [time_on_road |-> road, arrival_times |-> arrivals]]
    ELSE LET out == LegOutcome(rt, start, d, index, i, total, road, arrivals) IN
         IF out.kind = "return_none" THEN [kind |-> "return", value |-> None]
         ELSE IF out.kind = "raise" THEN [kind |-> "raise", exc |-> out.exc]
         ELSE WalkFrom(rt, start, d, index, i + 1, out.total_time,
                       out.time_on_road, out.arrival_times)

calculate_route_time(rt, start, d, index) ==
    WalkFrom(rt, start, d, index, 1, 0, 0, <<start>>)

\* build_graphs of analyze_routes.py: the function body ends after
\* `graphs = {}`, so the call returns None whatever the trips are.
build_graphs_routes(trips) ==
    LET built == <<>>   \* graphs = {}
    IN None

\* main() of analyze_routes.py: `graphs, degrees_df = build_graphs(...)`
\* cannot unpack None and raises TypeError before evaluate_routes is called.
Main ==
    /\ pc = "start"
    /\ LET ret == build_graphs_routes(df) IN
         IF IsNone(ret)
         THEN /\ pc' = "raised"
              /\ raised' = "TypeError"
              /\ UNCHANGED <<graphs, comboIdx, route_info>>
         ELSE /\ pc' = "loop"
              /\ graphs' = ret[1]
              /\ comboIdx' = 1
              /\ route_info' = <<>>
              /\ UNCHANGED raised
    /\ UNCHANGED <<route, start_time, day, leg, total_time, time_on_road,
                   arrival_times, legLog, result>>
    /\ UNCHANGED degreeVars

\* evaluate_routes(graphs) entered (line 131).
EvaluateRoutes ==
    /\ pc = "start"
    /\ pc' = "loop"
    /\ comboIdx' = 1
    /\ route_info' = <<>>
    /\ UNCHANGED <<graphs, route, start_time, day, leg, total_time, time_on_road,
                   arrival_times, legLog, result, raised>>
    /\ UNCHANGED degreeVars

\* A call whose clocks are not fresh locals but carry on from the call before.
CallRoute_KeepsClock ==
    /\ pc = "loop"
    /\ comboIdx <= NumCombos
    /\ pc' = "walk"
    /\ route' = POSSIBLE_ROUTES[ComboRouteIdx(comboIdx)]
    /\ start_time' = ComboStart(comboIdx)
    /\ day' = ComboDay(comboIdx)
    /\ leg' = 1
    /\ arrival_times' = <<ComboStart(comboIdx)>>
    /\ legLog' = <<>>
    /\ result' = None
    /\ UNCHANGED <<graphs, comboIdx, route_info, raised, total_time, time_on_road>>
    /\ UNCHANGED degreeVars

\* Lines 132-135 and 101: the next combination calls calculate_route_time.
CallRoute ==
    /\ pc = "loop"
    /\ comboIdx <= NumCombos
    /\ pc' = "walk"
    /\ route' = POSSIBLE_ROUTES[ComboRouteIdx(comboIdx)]
    /\ start_time' = ComboStart(comboIdx)
    /\ day' = ComboDay(comboIdx)
    /\ leg' = 1
    /\ total_time' = 0
    /\ time_on_road' = 0
    /\ arrival_times' = <<ComboStart(comboIdx)>>
    /\ legLog' = <<>>
    /\ result' = None
    /\ UNCHANGED <<graphs, comboIdx, route_info, raised>>
    /\ UNCHANGED degreeVars

\* Lines 103-124: one iteration of the loop over the legs.
WalkLeg ==
    /\ pc = "walk"
    /\ leg < Len(route)
    /\ LET out == LegOutcome(route, start_time, day, graphs, leg, total_time,
                             time_on_road, arrival_times)
       IN /\ legLog' = Append(legLog, out.locals)
          /\ IF out.kind = "return_none"
             THEN /\ pc' = "returned"
                  /\ result' = None
                  /\ UNCHANGED <<leg, total_time, time_on_road, arrival_times,
                                 raised>>
             ELSE IF out.kind = "raise"
             THEN /\ pc' = "raised"
                  /\ raised' = out.exc
                  /\ UNCHANGED <<leg, total_time, time_on_road, arrival_times,
                                 result>>
             ELSE /\ total_time' = out.total_time
                  /\ time_on_road' = out.time_on_road
                  /\ arrival_times' = out.arrival_times
                  /\ leg' = leg + 1
                  /\ UNCHANGED <<pc, result, raised>>
    /\ UNCHANGED <<graphs, comboIdx, route_info, route, start_time, day>>
    /\ UNCHANGED degreeVars

\* Line 126: the loop is over, the pair (time_on_road, arrival_times) is returned.
ReturnRoute ==
    /\ pc = "walk"
    /\ leg = Len(route)
    /\ pc' = "returned"
    /\ result' = [time_on_road |-> time_on_road, arrival_times |-> arrival_times]
    /\ UNCHANGED <<graphs, comboIdx, route_info, route, start_time, day, leg,
                   total_time, time_on_road, arrival_times, legLog, raised>>
    /\ UNCHANGED degreeVars

\* Lines 136-139: a row is appended unless the result is None.
CollectRow ==
    /\ pc = "returned"
    /\ pc' = "loop"
    /\ comboIdx' = comboIdx + 1
    /\ route_info' =
           IF IsNone(result) THEN route_info
           ELSE Append(route_info,
                       RouteRow(ComboRouteIdx(comboIdx), start_time, day,
                                result.time_on_road, result.arrival_times))
    /\ UNCHANGED <<graphs, route, start_time, day, leg, total_time, time_on_road,
                   arrival_times, legLog, result, raised>>
    /\ UNCHANGED degreeVars

\* Lines 140-144: the loops are over, the table is returned.
FinishRoutes ==
    /\ pc = "loop"
    /\ comboIdx > NumCombos
    /\ pc' = "done"
    /\ UNCHANGED <<graphs, comboIdx, route_info, route, start_time, day, leg,
                   total_time, time_on_road, arrival_times, legLog, result, raised>>
    /\ UNCHANGED degreeVars

---------------------------------------------------------------------------
(* The slot-graph indexes evaluate_routes is run on.  A trip lasts at most   *)
(* MaxTripMinutes (process_taxi_data.py), so does every edge weight, which  *)
(* is a mean of trip times.                                                 *)

MaxTripMinutes == 300

RECURSIVE GraphOfEdges(_, _)
GraphOfEdges(g, edges) ==
    IF edges = <<>> THEN g
    ELSE GraphOfEdges(add_edge(g, Head(edges)[1], Head(edges)[2], Head(edges)[3]),
                      Tail(edges))

GraphOfNodes(nodes) == [nodes |-> nodes, w |-> <<>>]

\* All three landmarks joined; Times Square to the MET is shorter through
\* the Empire State than by the direct edge.
GTriangle ==
    GraphOfEdges(GraphOfNodes(Blocks),
                 << <<TS, ES, 15 * Sec + 20>>, <<ES, MET, 20 * Sec + 30>>,
                    <<TS, MET, 50 * Sec>> >>)
\* Long legs: the walk runs past midnight.
GSlow ==
    GraphOfEdges(GraphOfNodes(Blocks),
                 << <<TS, ES, 45 * Sec>>, <<ES, MET, MaxTripMinutes * Sec>>,
                    <<TS, MET, 290 * Sec + 10>> >>)
\* The MET is a node without any edge.
GPartial == GraphOfEdges(GraphOfNodes(Blocks), << <<TS, ES, 15 * Sec>> >>)
\* The MET was never observed: it is no node.
GNoMet == GraphOfEdges(GraphOfNodes({}), << <<TS, ES, 15 * Sec>> >>)
\* A chain Times Square - extra - Empire State - extras - MET of long edges.
ChainOrder ==
    <<TS, ExtraBlock(1), ES>> \o [k \in 1..(NumExtra - 1) |-> ExtraBlock(k + 1)]
        \o <<MET>>
GChain ==
    GraphOfEdges(GraphOfNodes(Blocks),
                 [k \in 1..(Len(ChainOrder) - 1) |->
                     <<ChainOrder[k], ChainOrder[k + 1], 260 * Sec>>])
Catalogue == {GTriangle, GSlow, GPartial, GNoMet, GChain, EmptyGraph}

AllHours == 0..(HoursPerDay - 1)
InHours(h) == h >= FirstHour /\ h <= LastHour
\* Which hours have a graph ("A" or "B") and which have none ("-").
Layouts ==
    { [h \in AllHours |-> IF InHours(h) THEN "A" ELSE "-"],
      [h \in AllHours |-> IF ~InHours(h) THEN "-" ELSE IF h < 14 THEN "A" ELSE "B"],
      [h \in AllHours |-> IF h % 2 = 0 THEN "A" ELSE "B"],
      [h \in AllHours |-> IF h \in {10, 12} THEN "A"
                          ELSE IF h \in {14, 16} THEN "B" ELSE "-"] }

\* The index: on Monday graph a where the layout says "A" and b where it says
\* "B", on Saturday the other way round.
MakeIndex(a, b, layout) ==
    LET slots == {s \in AllHours \X Range(DAYS_OF_WEEK) : layout[s[1]] # "-"}
        graphOf(s) == IF (layout[s[1]] = "A") = (s[2] = DAYS_OF_WEEK[1]) THEN a ELSE b
    IN [key \in {GraphKey(s[1], s[2]) : s \in slots} |->
           graphOf(CHOOSE s \in slots : GraphKey(s[1], s[2]) = key)]

DegreeIdle ==
    /\ dpc = "off"
    /\ df = <<>>
    /\ route_stats = <<>>
    /\ block_positions = {}
    /\ slotIdx = 0
    /\ G = EmptyGraph
    /\ node_degrees = <<>>

Init ==
    /\ pc = "start"
    /\ \E a \in Catalogue, b \in Catalogue, layout \in Layouts :
           graphs = MakeIndex(a, b, layout)
    /\ comboIdx = 0
    /\ route_info = <<>>
    /\ route = <<>>
    /\ start_time = 0
    /\ day = ""
    /\ leg = 0
    /\ total_time = 0
    /\ time_on_road = 0
    /\ arrival_times = <<>>
    /\ legLog = <<>>
    /\ result = None
    /\ raised = NoException
    /\ DegreeIdle

Next ==
    \/ Main
    \/ EvaluateRoutes
    \/ CallRoute
    \/ WalkLeg
    \/ ReturnRoute
    \/ CollectRow
    \/ FinishRoutes

Spec == Init /\ [][Next]_vars

---------------------------------------------------------------------------
(* analyze_node_degrees.py: build_graphs and compute_node_degrees           *)
(*                                                                         *)
(* A trip is [nat, hour, day, x, y, travel_time]: nat says that the pickup  *)
(* timestamp did not parse (errors='coerce' makes it NaT, so pickup_hour,   *)
(* pickup_day and travel_time are NaN); x and y are the pickup and dropoff  *)
(* block ids.  A trip whose dropoff timestamp alone did not parse has its   *)
(* hour and day and a travel_time of NaN.  Coordinates are left out:        *)
(* block_positions is modelled by its keys.                                 *)

\* Line 46: the travel time of a trip one of whose timestamps is NaT.  No
\* arithmetic is done on it; mean() skips it.
NaN == -1

\* String order of the block ids and of the weekday names, as groupby sorts.
BlockOrder == [k \in 1..NumExtra |-> ExtraBlock(k)] \o <<ES, TS, MET>>
DayOrder ==
    <<"Friday", "Monday", "Saturday", "Sunday", "Thursday", "Tuesday", "Wednesday">>
RankIn(order, v) == CHOOSE k \in DOMAIN order : order[k] = v

\* Lexicographic order of two group keys <<hour, day, x, y>>, the second
\* key not before the first.
KeyLE(a, b) ==
    LET ra == <<a[1], RankIn(DayOrder, a[2]), RankIn(BlockOrder, a[3]),
                RankIn(BlockOrder, a[4])>>
        rb == <<b[1], RankIn(DayOrder, b[2]), RankIn(BlockOrder, b[3]),
                RankIn(BlockOrder, b[4])>>
    IN \/ ra = rb
       \/ \E k \in 1..4 : ra[k] < rb[k] /\ \A j \in 1..(k - 1) : ra[j] = rb[j]

RECURSIVE SortKeys(_)
SortKeys(S) ==
    IF S = {} THEN <<>>
    ELSE LET m == CHOOSE k \in S : \A j \in S : KeyLE(k, j)
         IN <<m>> \o SortKeys(S \ {m})

RECURSIVE SumOver(_, _)
SumOver(trips, I) ==
    IF I = {} THEN 0
    ELSE LET i == CHOOSE j \in I : TRUE
         IN trips[i].travel_time + SumOver(trips, I \ {i})

GroupKey(t) == <<t.hour, t.day, t.x, t.y>>

\* mean() of the travel_time column over one group: NaN entries are skipped,
\* and the mean of none is NaN.
MeanTime(trips, group) ==
    LET timed == {i \in group : trips[i].travel_time # NaN}
    IN IF timed = {} THEN NaN ELSE SumOver(trips, timed) \div Cardinality(timed)

\* A group-by that takes the two blocks of a trip as an unordered pair.
RouteStats_Undirected(trips) ==
    LET valid == {i \in DOMAIN trips : ~trips[i].nat}
        ukey(t) == IF KeyLE(<<t.hour, t.day, t.x, t.y>>, <<t.hour, t.day, t.y, t.x>>)
                   THEN <<t.hour, t.day, t.x, t.y>>
                   ELSE <<t.hour, t.day, t.y, t.x>>
        keys == {ukey(trips[i]) : i \in valid}
        group(k) == {i \in valid : ukey(trips[i]) = k}
        row(k) == [pickup_hour |-> k[1], pickup_day |-> k[2],
                   BCTCB2010_x |-> k[3], BCTCB2010_y |-> k[4],
                   avg_travel_time |-> MeanTime(trips, group(k)),
                   trip_count |-> Cardinality(group(k))]
        sorted == SortKeys(keys)
    IN [n \in 1..Len(sorted) |-> row(sorted[n])]

\* A group-by that keeps the groups in the order of their first trips
\* (sort=False).
RouteStats_Unsorted(trips) ==
    LET valid == {i \in DOMAIN trips : ~trips[i].nat}
        firsts == {i \in valid :
                      \A j \in valid : j < i => GroupKey(trips[j]) # GroupKey(trips[i])}
        group(k) == {i \in valid : GroupKey(trips[i]) = k}
        row(k) == [pickup_hour |-> k[1], pickup_day |-> k[2],
                   BCTCB2010_x |-> k[3], BCTCB2010_y |-> k[4],
                   avg_travel_time |-> MeanTime(trips, group(k)),
                   trip_count |-> Cardinality(group(k))]
    IN [n \in 1..Cardinality(firsts) |->
           row(GroupKey(trips[CHOOSE i \in firsts :
                                  Cardinality({j \in firsts : j <= i}) = n]))]

\* Lines 73-76: groupby(hour, day, x, y).agg(mean, count).reset_index().
\* Rows with a NaN key are dropped, the groups come out sorted by key.  (The
\* trip times of the model are multiples of five minutes, so that the mean of up to six
\* of them is a whole number of ticks and \div is exact.)
RouteStats(trips) ==
    LET valid == {i \in DOMAIN trips : ~trips[i].nat}
        keys == {GroupKey(trips[i]) : i \in valid}
        group(k) == {i \in valid : GroupKey(trips[i]) = k}
        row(k) == [pickup_hour |-> k[1], pickup_day |-> k[2],
                   BCTCB2010_x |-> k[3], BCTCB2010_y |-> k[4],
                   avg_travel_time |-> MeanTime(trips, group(k)),
                   trip_count |-> Cardinality(group(k))]
        sorted == SortKeys(keys)
    IN [n \in 1..Len(sorted) |-> row(sorted[n])]

\* Lines 54-63: compute_mean_coords, one row per block id seen as pickup or
\* dropoff block (the keys only).
compute_mean_coords(trips) ==
    {trips[i].x : i \in DOMAIN trips} \cup {trips[i].y : i \in DOMAIN trips}

\* The pickup blocks alone.
BlockPositions_PickupOnly(trips) == {trips[i].x : i \in DOMAIN trips}

\* Lines 79-85: the keys of block_positions, the pickup and the dropoff block
\* of every trip.
BlockPositions(trips) ==
    {trips[i].x : i \in DOMAIN trips} \cup {trips[i].y : i \in DOMAIN trips}

RECURSIVE AddNodes(_, _)
AddNodes(g, S) ==
    IF S = {} THEN g
    ELSE LET n == CHOOSE m \in S : TRUE IN AddNodes(add_node(g, n), S \ {n})

RECURSIVE AddRows(_, _)
AddRows(g, rows) ==
    IF rows = <<>> THEN g
    ELSE AddRows(add_edge(g, Head(rows).BCTCB2010_x, Head(rows).BCTCB2010_y,
                          Head(rows).avg_travel_time),
                 Tail(rows))

\* The slots in the order of the loops of lines 94-95: hour, then day.
NumSlots == Len(HOURS) * Len(DAYS_OF_WEEK)
SlotHour(n) == HOURS[((n - 1) \div Len(DAYS_OF_WEEK)) + 1]
SlotDay(n) == DAYS_OF_WEEK[((n - 1) % Len(DAYS_OF_WEEK)) + 1]

\* Line 96: the rows of one slot, in table order.
FilterRows(stats, hour, d) ==
    SelectSeq(stats, LAMBDA r : r.pickup_hour = hour /\ r.pickup_day = d)

\* Lines 97-103: the graph of one slot.
SlotGraph(stats, positions, hour, d) ==
    AddRows(AddNodes(EmptyGraph, positions), FilterRows(stats, hour, d))

\* A row for every target node, in the graph or not.
DegreeRowsOf_AlwaysRow(g, key, nodes) ==
    [i \in DOMAIN nodes |->
        [graph |-> key, node |-> nodes[i], degree |-> degree(g, nodes[i])]]

RECURSIVE DegreeRowsOf(_, _, _)
\* Lines 105-111: one row per target node that is a node of the graph.
DegreeRowsOf(g, key, nodes) ==
    IF nodes = <<>> THEN <<>>
    ELSE (IF Head(nodes) \in g.nodes
          THEN <<[graph |-> key, node |-> Head(nodes),
                  degree |-> degree(g, Head(nodes))]>>
          ELSE <<>>) \o DegreeRowsOf(g, key, Tail(nodes))

\* main(), lines 119-121: load_data, compute_mean_coords, build_graphs.
BuildGraphs ==
    /\ dpc = "start"
    /\ dpc' = "degrees"
    /\ route_stats' = RouteStats(df)
    /\ block_positions' = BlockPositions(df)
    /\ slotIdx' = 1
    /\ node_degrees' = <<>>
    /\ UNCHANGED <<df, G>>
    /\ UNCHANGED routeVars

\* compute_node_degrees, lines 94-111: one slot.
DegreesOfSlot ==
    /\ dpc = "degrees"
    /\ slotIdx <= NumSlots
    /\ LET hour == SlotHour(slotIdx)
           d == SlotDay(slotIdx)
           g == SlotGraph(route_stats, block_positions, hour, d)
       IN /\ G' = g
          /\ node_degrees' =
                 node_degrees \o DegreeRowsOf(g, GraphKey(hour, d), TARGET_NODES)
    /\ slotIdx' = slotIdx + 1
    /\ UNCHANGED <<dpc, df, route_stats, block_positions>>
    /\ UNCHANGED routeVars

\* Line 113 and main, lines 122-127: the table is returned and written.
FinishDegrees ==
    /\ dpc = "degrees"
    /\ slotIdx > NumSlots
    /\ dpc' = "done"
    /\ UNCHANGED <<df, route_stats, block_positions, slotIdx, G, node_degrees>>
    /\ UNCHANGED routeVars

\* The trip tables the degree script is run on.
MaxTrips == 2
TripBlocks == {TS, ES, ExtraBlock(1)}
TripMinutes == {5, 15}
TripSlots == {<<FirstHour, "Monday">>, <<LastHour + 1, "Monday">>}
Trips ==
    {[nat |-> FALSE, hour |-> s[1], day |-> s[2], x |-> x, y |-> y,
      travel_time |-> m * Sec] :
        s \in TripSlots, x \in TripBlocks, y \in TripBlocks, m \in TripMinutes}
    \cup {[nat |-> TRUE, hour |-> 0, day |-> "NaN", x |-> x, y |-> y,
           travel_time |-> NaN] : x \in TripBlocks, y \in TripBlocks}
    \cup {[nat |-> FALSE, hour |-> FirstHour, day |-> "Monday", x |-> b[1],
           y |-> b[2], travel_time |-> NaN] : b \in {<<TS, ES>>, <<ES, TS>>}}

RouteIdle ==
    /\ pc = "off"
    /\ graphs = <<>>
    /\ comboIdx = 0
    /\ route_info = <<>>
    /\ route = <<>>
    /\ start_time = 0
    /\ day = ""
    /\ leg = 0
    /\ total_time = 0
    /\ time_on_road = 0
    /\ arrival_times = <<>>
    /\ legLog = <<>>
    /\ result = None
    /\ raised = NoException

DegreeInit ==
    /\ dpc = "start"
    /\ df \in UNION {[1..n -> Trips] : n \in 0..MaxTrips}
    /\ route_stats = <<>>
    /\ block_positions = {}
    /\ slotIdx = 0
    /\ G = EmptyGraph
    /\ node_degrees = <<>>
    /\ RouteIdle

DegreeNext ==
    \/ BuildGraphs
    \/ DegreesOfSlot
    \/ FinishDegrees

DegreeSpec == DegreeInit /\ [][DegreeNext]_vars

---------------------------------------------------------------------------
(* Reference notions used by the properties                                 *)

RECURSIVE SumSeq(_)
SumSeq(q) == IF q = <<>> THEN 0 ELSE Head(q) + SumSeq(Tail(q))

SetMin(S) == CHOOSE x \in S : \A y \in S : x <= y

\* The costs of all simple paths from u to target that avoid `visited`.
RECURSIVE PathCosts(_, _, _, _)
PathCosts(g, u, target, visited) ==
    IF u = target THEN {0}
    ELSE UNION { {g.w[{u, v}] + c : c \in PathCosts(g, v, target, visited \cup {v})}
                 : v \in Neighbors(g, u) \ visited }

Connected(g, a, b) == a \in g.nodes /\ PathCosts(g, a, b, {a}) # {}
ShortestCost(g, a, b) == SetMin(PathCosts(g, a, b, {a}))

TicksPerHour == MinPerHour * Sec
\* floor(start + total/60) with total in minutes, i.e. the whole hours in
\* start hours plus `total` ticks.
FloorHours(start, total) == (start * TicksPerHour + total) \div TicksPerHour

\* The slot graph the k-th logged leg looked up, and that leg's shortest-path cost.
LegGraph(k) == graphs[legLog[k].graph_key]
LegCost(k) == ShortestCost(LegGraph(k), route[k], route[k + 1])
\* Path cost plus dwell accumulated over the legs before leg k.
ElapsedBefore(k) ==
    SumSeq([j \in 1..(k - 1) |-> LegCost(j) + Dwell(route[j + 1])])

Succeeded == pc = "returned" /\ ~IsNone(result)

\* C1: when calculate_route_time succeeds, the returned time_on_road is exactly
\* the sum over the legs of the shortest-path cost of the leg in the slot graph
\* that leg used, with no dwell time in it.
C1_TimeOnRoadIsSumOfLegCosts ==
    Succeeded =>
        /\ Len(legLog) = Len(route) - 1
        /\ result.time_on_road = SumSeq([k \in 1..Len(legLog) |-> LegCost(k)])

\* C1 witness: a route succeeded on which one leg's shortest path is cheaper
\* than the direct edge between its two stops.
C1_Witness ==
    /\ Succeeded
    /\ \E k \in 1..Len(legLog) :
           /\ {route[k], route[k + 1]} \in DOMAIN LegGraph(k).w
           /\ LegCost(k) < LegGraph(k).w[{route[k], route[k + 1]}]

\* C2 (as amended): every leg consults the slot graph keyed
\* "{current_hour}_{day}" with current_hour = floor(start_time + total_time/60)
\* mod 24, total_time being the path cost plus dwell of all earlier legs; the
\* start hour is the one used whenever total_time is below 60 minutes.
C2_LegUsesHourInEffect ==
    \A k \in 1..Len(legLog) :
        LET h == FloorHours(start_time, ElapsedBefore(k)) % HoursPerDay IN
        /\ legLog[k].total_time = ElapsedBefore(k)
        /\ legLog[k].graph_key = GraphKey(h, day)
        /\ legLog[k].G = (IF GraphKey(h, day) \in DOMAIN graphs
                          THEN graphs[GraphKey(h, day)] ELSE None)
        /\ (ElapsedBefore(k) < MinPerHour * Sec => legLog[k].current_hour = start_time)

\* C2 witness: a second leg was looked up in another hour's graph than the first.
C2_Witness ==
    /\ Len(legLog) = 2
    /\ legLog[2].current_hour # start_time
    /\ legLog[2].graph_key \in DOMAIN graphs
    /\ graphs[legLog[2].graph_key] # graphs[legLog[1].graph_key]

\* C2 as stated: in addition, the original start hour is used only when
\* total_time is still below 60 minutes.
C2_StartHourOnlyBelowSixtyMinutes ==
    /\ C2_LegUsesHourInEffect
    /\ \A k \in 1..Len(legLog) :
           legLog[k].current_hour = start_time => legLog[k].total_time < MinPerHour * Sec

\* A slot without data: no entry under the key, or a graph without nodes.
SlotMissing(key) ==
    key \notin DOMAIN graphs \/ IsNone(graphs[key]) \/ graphs[key].nodes = {}
HourInEffect == FloorHours(start_time, total_time) % HoursPerDay

C3_Step ==
    /\ (pc = "walk" /\ leg < Len(route) /\ SlotMissing(GraphKey(HourInEffect, day)))
           => /\ pc' = "returned"
              /\ IsNone(result')
              /\ raised' = NoException
              /\ route_info' = route_info
    /\ (pc = "returned" /\ IsNone(result))
           => /\ pc' = "loop"
              /\ comboIdx' = comboIdx + 1
              /\ route_info' = route_info
              /\ raised' = NoException

\* C3: a leg whose slot graph is missing or empty makes calculate_route_time
\* return no result (not the time of the legs already walked); evaluate_routes
\* then raises nothing, adds no row and goes on with the next combination.
C3_MissingSlotYieldsNoRow == [][C3_Step]_vars

\* C3 witness: the first leg was walked, the second found no slot graph, and
\* the call returned no result.
C3_Witness ==
    /\ pc = "returned"
    /\ IsNone(result)
    /\ Len(legLog) = 2
    /\ time_on_road > 0
    /\ SlotMissing(legLog[2].graph_key)

\* C4: a leg whose ends are not connected in an existing slot graph drops the
\* combination silently: no exception reaches the caller of evaluate_routes,
\* no row is added and the sweep goes on.
C4_DisconnectedLegDroppedSilently ==
    \A k \in 1..Len(legLog) :
        (/\ ~SlotMissing(legLog[k].graph_key)
         /\ ~Connected(LegGraph(k), route[k], route[k + 1]))
            => /\ raised = NoException
               /\ pc \in {"returned", "loop", "done"}
               /\ IsNone(result)

\* C5: build_graphs of the route script returns the slot-graph index, so main
\* never fails on its result and goes on to evaluate_routes and the write.
C5_MainReachesEvaluation ==
    /\ pc # "start" => ~IsNone(build_graphs_routes(df))
    /\ raised # "TypeError"

\* The dwell times of the destinations reached when `n` stops are behind.
DwellSoFar(n) == SumSeq([k \in 1..(n - 1) |-> Dwell(route[k + 1])])

\* C7: at every point of the walk total_time is time_on_road plus the dwell
\* times of the destinations reached so far.
C7_TotalIsRoadPlusDwell ==
    leg >= 1 => total_time = time_on_road + DwellSoFar(leg)

\* C7 witness: both legs of a route are walked.
C7_Witness == pc = "walk" /\ leg = Len(route) /\ time_on_road > 0

\* C8 (as amended): after each leg the value appended to arrival_times is
\* floor(start_time + total_time/60) mod 24, a whole hour, with total_time
\* including the dwell at the stop just reached; the list starts with the
\* start hour and the returned list has one entry per stop.
C8_ArrivalIsWholeHourReached ==
    /\ leg >= 1 =>
          /\ Len(arrival_times) = leg
          /\ arrival_times[1] = start_time
          /\ \A k \in 2..leg :
                 LET total == IF k = leg THEN total_time ELSE ElapsedBefore(k) IN
                 arrival_times[k] = FloorHours(start_time, total) % HoursPerDay
          /\ leg >= 2 => total_time = ElapsedBefore(leg)
    /\ Succeeded =>
          /\ result.arrival_times = arrival_times
          /\ Len(result.arrival_times) = Len(route)

\* C8 witness: a route succeeded whose last arrival is past midnight.
C8_Witness ==
    /\ Succeeded
    /\ result.arrival_times[Len(route)] < start_time
    /\ total_time % TicksPerHour # 0

\* C8 as stated: the appended value is (start_time + total_time/60) mod 24,
\* the time of day reached, in hours.
C8_ArrivalIsTimeOfDayReached ==
    (pc = "walk" /\ leg >= 2) =>
        arrival_times[leg] * TicksPerHour =
            (start_time * TicksPerHour + total_time) % (HoursPerDay * TicksPerHour)

\* The combinations in the order start hour, weekday, route.
ComboTriples ==
    [c \in 1..(Len(START_TIMES) * Len(DAYS_OF_WEEK) * Len(POSSIBLE_ROUTES)) |->
        CHOOSE t \in (DOMAIN START_TIMES) \X (DOMAIN DAYS_OF_WEEK) \X (DOMAIN POSSIBLE_ROUTES) :
            ((t[1] - 1) * Len(DAYS_OF_WEEK) + (t[2] - 1)) * Len(POSSIBLE_ROUTES) + t[3] = c]

RECURSIVE ExpectedRows(_)
ExpectedRows(c) ==
    IF c > Len(ComboTriples) THEN <<>>
    ELSE LET t == ComboTriples[c]
             r == calculate_route_time(POSSIBLE_ROUTES[t[3]], START_TIMES[t[1]],
                                       DAYS_OF_WEEK[t[2]], graphs)
             row == IF r.kind = "return" /\ ~IsNone(r.value)
                    THEN << <<"Route " \o ToString(t[3]), START_TIMES[t[1]],
                              DAYS_OF_WEEK[t[2]], Round2(r.value.time_on_road)>>
                            \o r.value.arrival_times >>
                    ELSE <<>>
         IN row \o ExpectedRows(c + 1)

\* C9: evaluate_routes runs the simulator once for each of the 48
\* combinations, and its table holds one row for each combination that
\* succeeded and no other, in the order start hour, weekday, route.
C9_OneRowPerSuccessfulCombination ==
    (comboIdx >= 1 /\ pc \in {"done", "raised"}) =>
        /\ pc = "done"
        /\ comboIdx = Len(ComboTriples) + 1
        /\ route_info = ExpectedRows(1)

\* What holds of the table when the sweep does reach its end.
C9_TableWhenSweepCompletes ==
    pc = "done" =>
        /\ comboIdx = Len(ComboTriples) + 1
        /\ route_info = ExpectedRows(1)

---------------------------------------------------------------------------
(* Properties of the degree script                                          *)

\* The blocks observed as origin or destination of any trip.
ObservedBlocks == {b \in Blocks : \E i \in DOMAIN df : df[i].x = b \/ df[i].y = b}
SlotBuilt == dpc \in {"degrees", "done"} /\ slotIdx >= 2

\* C6: every block observed in any trip is a node of every slot graph built,
\* also where it has no edge, and both ends of every edge are such blocks.
C6_ObservedBlocksAreNodes ==
    SlotBuilt =>
        /\ compute_mean_coords(df) = ObservedBlocks
        /\ ObservedBlocks \subseteq G.nodes
        /\ \A e \in DOMAIN G.w : e \subseteq ObservedBlocks

\* C6 witness: a slot graph with an edge and with a node that has no edge.
C6_Witness ==
    /\ SlotBuilt
    /\ DOMAIN G.w # {}
    /\ \E b \in G.nodes : Neighbors(G, b) = {}

\* The slot a degree row names, and the blocks with a trip between them and
\* the row's node in that slot, in either direction.
SlotOfKey(key) ==
    CHOOSE n \in 1..NumSlots : GraphKey(SlotHour(n), SlotDay(n)) = key
RecordedNeighbours(r) ==
    LET n == SlotOfKey(r.graph) IN
    {b \in Blocks :
        \E i \in DOMAIN df :
            /\ ~df[i].nat
            /\ df[i].hour = SlotHour(n) /\ df[i].day = SlotDay(n)
            /\ \/ df[i].x = r.node /\ df[i].y = b
               \/ df[i].x = b /\ df[i].y = r.node}

\* C10: every degree emitted is the number of distinct blocks with a recorded
\* edge to the landmark in that slot, also when a trip row starts and ends at
\* the landmark itself and when both (A,B) and (B,A) rows exist.
C10_DegreeIsDistinctNeighbours ==
    \A j \in DOMAIN node_degrees :
        node_degrees[j].degree = Cardinality(RecordedNeighbours(node_degrees[j]))

\* What the degree is: the distinct other blocks, plus two for a self-loop.
C10_DegreeCountsSelfLoopTwice ==
    \A j \in DOMAIN node_degrees :
        LET r == node_degrees[j] IN
        r.degree = Cardinality(RecordedNeighbours(r) \ {r.node})
                   + (IF r.node \in RecordedNeighbours(r) THEN 2 ELSE 0)

---------------------------------------------------------------------------
(* Properties settled after the first ten                                   *)

\* The k-th logged leg ended as a missing slot: no result, no exception.
EndedAsMissingSlot(k) ==
    /\ k = Len(legLog)
    /\ pc \in {"returned", "loop", "done"}
    /\ IsNone(result)
    /\ raised = NoException

\* C11: when start_time + floor(total_time/60) exceeds 23 the leg looks up the
\* slot graph of that value mod 24, an hour in 0..23, under the same weekday
\* name; and when the index has no graph for the wrapped hour the route ends
\* as a missing slot.
C11_WrappedHourSelectsSlot ==
    \A k \in 1..Len(legLog) :
        LET h == FloorHours(start_time, legLog[k].total_time) IN
        /\ legLog[k].current_hour \in 0..(HoursPerDay - 1)
        /\ h > HoursPerDay - 1 =>
              /\ legLog[k].current_hour = h % HoursPerDay
              /\ legLog[k].graph_key = GraphKey(h % HoursPerDay, day)
              /\ GraphKey(h % HoursPerDay, day) \notin DOMAIN graphs
                     => EndedAsMissingSlot(k)

\* C11 witness: a second leg began past midnight and was walked in the graph
\* of the wrapped hour.
C11_Witness ==
    /\ pc = "walk"
    /\ leg = Len(route)
    /\ Len(legLog) = 2
    /\ FloorHours(start_time, legLog[2].total_time) > HoursPerDay - 1
    /\ legLog[2].graph_key \in DOMAIN graphs

\* The key of a trip and of a route-stat row, the trips a row stands for
\* among a set of trips, and those of them that have a travel time.
StatsBuilt == dpc \in {"degrees", "done"}
TripKey(i) == <<df[i].hour, df[i].day, df[i].x, df[i].y>>
RowKey(r) == <<r.pickup_hour, r.pickup_day, r.BCTCB2010_x, r.BCTCB2010_y>>
PickupParsed == {i \in DOMAIN df : ~df[i].nat}
TripsOfRow(r, S) == {i \in S : TripKey(i) = RowKey(r)}
Timed(S) == {i \in S : df[i].travel_time # NaN}
RECURSIVE TotalTime(_)
TotalTime(S) ==
    IF S = {} THEN 0
    ELSE LET i == CHOOSE j \in S : TRUE IN df[i].travel_time + TotalTime(S \ {i})
CountColumn == [n \in DOMAIN route_stats |-> route_stats[n].trip_count]

PureOutcome(rt, start, d, index) == calculate_route_time(rt, start, d, index)

C13_Step ==
    /\ graphs' = graphs
    /\ (pc = "walk" /\ pc' = "returned") =>
           LET r == PureOutcome(route, start_time, day, graphs) IN
           /\ r.kind = "return"
           /\ result' = r.value
    /\ (pc = "walk" /\ pc' = "raised") =>
           LET r == PureOutcome(route, start_time, day, graphs) IN
           /\ r.kind = "raise"
           /\ raised' = r.exc
    /\ (pc = "returned" /\ pc' = "loop") =>
           LET t == ComboTriples[comboIdx]
               r == PureOutcome(POSSIBLE_ROUTES[t[3]], START_TIMES[t[1]],
                                DAYS_OF_WEEK[t[2]], graphs)
           IN route_info' =
                  IF IsNone(r.value) THEN route_info
                  ELSE Append(route_info,
                              <<"Route " \o ToString(t[3]), START_TIMES[t[1]],
                                DAYS_OF_WEEK[t[2]], Round2(r.value.time_on_road)>>
                              \o r.value.arrival_times)

\* C13: no step changes the graph index or a slot graph, and what a call of
\* calculate_route_time returns or raises, and the row it gives, is a function
\* of (route, start_time, day, graphs) alone, whatever combinations were
\* evaluated before it.
C13_ResultDependsOnArgumentsOnly == [][C13_Step]_vars

\* C13 witness: a call returns a pair after earlier calls have returned
\* pairs and None.
C13_Witness ==
    /\ pc = "returned"
    /\ ~IsNone(result)
    /\ route_info # <<>>
    /\ comboIdx > Len(route_info) + 1

\* The rows of the slot whose graph is in G, by their place in the table, and
\* the pairs of them that are each other's reverse, the earlier one first.
BuiltSlot == slotIdx - 1
RowsOfBuiltSlot ==
    {n \in DOMAIN route_stats :
        /\ route_stats[n].pickup_hour = SlotHour(BuiltSlot)
        /\ route_stats[n].pickup_day = SlotDay(BuiltSlot)}
ReversePairs ==
    {p \in RowsOfBuiltSlot \X RowsOfBuiltSlot :
        /\ p[1] < p[2]
        /\ route_stats[p[1]].BCTCB2010_x = route_stats[p[2]].BCTCB2010_y
        /\ route_stats[p[1]].BCTCB2010_y = route_stats[p[2]].BCTCB2010_x}

\* C14: when the rows of a slot hold both (A,B) and (B,A), the slot graph has
\* the one edge {A,B}, and its weight is the average of the row inserted
\* later; the earlier row's average plays no part.
C14_LaterRowOverwritesWeight ==
    SlotBuilt =>
        \A p \in ReversePairs :
            LET early == route_stats[p[1]]
                late == route_stats[p[2]]
                e == {late.BCTCB2010_x, late.BCTCB2010_y} IN
            /\ e \in DOMAIN G.w
            /\ Cardinality({f \in DOMAIN G.w : early.BCTCB2010_x \in f
                                                /\ early.BCTCB2010_y \in f}) = 1
            /\ G.w[e] = late.avg_travel_time

\* C14 witness: a slot graph built from the rows (A,B) and (B,A) with
\* different averages.
C14_Witness ==
    /\ SlotBuilt
    /\ \E p \in ReversePairs :
           /\ route_stats[p[1]].avg_travel_time # route_stats[p[2]].avg_travel_time
           /\ route_stats[p[1]].avg_travel_time # NaN
           /\ route_stats[p[2]].avg_travel_time # NaN

\* The dwell of a destination in ticks, by block id.
DwellByBlock(b) ==
    CASE b = "10113001008" -> 30 * Sec
      [] b = "10076001001" -> 120 * Sec
      [] b = "10143001021" -> 180 * Sec
      [] OTHER -> 0
DwellFromSecondStop(n) == SumSeq([k \in 1..(n - 1) |-> DwellByBlock(route[k + 1])])

C15_Step ==
    /\ \A b \in Blocks : Dwell(b) = DwellByBlock(b)
    /\ (pc = "loop" /\ pc' = "walk") => total_time' = 0 /\ time_on_road' = 0
    /\ (pc = "walk" /\ leg' = leg + 1) =>
           LET dest == route[leg + 1]
               cost == ShortestCost(graphs[legLog'[leg].graph_key], route[leg], dest)
           IN /\ time_on_road' = time_on_road + cost
              /\ total_time' = total_time + cost + DwellByBlock(dest)
              /\ total_time' = time_on_road' + DwellFromSecondStop(leg')

\* C15: the dwell added on a leg depends on the leg's destination alone, 30
\* minutes for 10113001008, 120 for 10076001001, 180 for 10143001021 and 0
\* for any other block; it goes into total_time and not into time_on_road,
\* and nothing is added for the first stop of the route.
C15_DwellByDestinationIntoTotalOnly == [][C15_Step]_vars

\* C15 witness: a route is walked to its end over legs with different dwells.
C15_Witness ==
    /\ pc = "walk"
    /\ leg = Len(route)
    /\ Len(route) = 3
    /\ DwellByBlock(route[2]) # DwellByBlock(route[3])
    /\ total_time = time_on_road + DwellByBlock(route[2]) + DwellByBlock(route[3])
    /\ time_on_road > 0

Landmarks == {TARGET_NODES[i] : i \in DOMAIN TARGET_NODES}
ObservedLandmarks == Landmarks \cap ObservedBlocks
\* The blocks with a route-stat row from or to block b in slot n.
HasEdgeInSlot(b, n) ==
    \E i \in DOMAIN route_stats :
        /\ route_stats[i].pickup_hour = SlotHour(n)
        /\ route_stats[i].pickup_day = SlotDay(n)
        /\ b \in {route_stats[i].BCTCB2010_x, route_stats[i].BCTCB2010_y}

SlotStep == dpc = "degrees" /\ slotIdx' = slotIdx + 1
C16_Step ==
    /\ ~SlotStep => node_degrees' = node_degrees
    /\ SlotStep =>
           LET new == SubSeq(node_degrees', Len(node_degrees) + 1, Len(node_degrees'))
               key == ToString(SlotHour(slotIdx)) \o "_" \o SlotDay(slotIdx)
           IN /\ SubSeq(node_degrees', 1, Len(node_degrees)) = node_degrees
              /\ \A i \in DOMAIN new : new[i].graph = key /\ new[i].node \in Landmarks
              /\ \A t \in Landmarks :
                     Cardinality({i \in DOMAIN new : new[i].node = t})
                         = IF t \in G'.nodes THEN 1 ELSE 0
              /\ G'.nodes \cap Landmarks = ObservedLandmarks
              /\ \A i \in DOMAIN new :
                     ~HasEdgeInSlot(new[i].node, slotIdx) => new[i].degree = 0
              /\ Len(node_degrees') = slotIdx * Cardinality(ObservedLandmarks)

\* C16: a slot adds a row (graph "{hour}_{day}", node, degree) for a landmark
\* exactly when the landmark is a node of the slot's graph; a landmark that
\* is no node gets no row, and a landmark observed in any trip is a node of
\* every slot graph, so that it gets one row in each of the 24 slots, with
\* degree 0 where no row of the slot starts or ends at it.
C16_RowIffLandmarkIsNode == [][C16_Step]_vars

\* C16 witness: the table is complete, one landmark has a row of degree 0 and
\* a row of positive degree in it, and another landmark has no row.
C16_Witness ==
    /\ dpc = "done"
    /\ Len(node_degrees) = NumSlots
    /\ \E i, j \in DOMAIN node_degrees :
           node_degrees[i].degree = 0 /\ node_degrees[j].degree > 0

\* The trip table with its rows in another order.
Orders == {q \in [DOMAIN df -> DOMAIN df] : \A i, j \in DOMAIN df : q[i] = q[j] => i = j}
Reordered(q) == [i \in DOMAIN df |-> df[q[i]]]
\* Row m comes strictly before row n in (hour, weekday, origin, destination).
StrictlyBefore(m, n) ==
    /\ KeyLE(RowKey(route_stats[m]), RowKey(route_stats[n]))
    /\ RowKey(route_stats[m]) # RowKey(route_stats[n])

C17_Step ==
    /\ (dpc = "start" /\ dpc' = "degrees") =>
           /\ \A m, n \in DOMAIN route_stats' : m < n => StrictlyBefore(m, n)'
           /\ \A q \in Orders :
                  /\ RouteStats(Reordered(q)) = route_stats'
                  /\ BlockPositions(Reordered(q)) = block_positions'
    /\ SlotStep =>
           /\ G' = SlotGraph(route_stats, block_positions,
                             SlotHour(slotIdx), SlotDay(slotIdx))
           /\ \A m, n \in DOMAIN route_stats :
                  /\ route_stats[m].pickup_hour = SlotHour(slotIdx)
                  /\ route_stats[m].pickup_day = SlotDay(slotIdx)
                  /\ route_stats[n].pickup_hour = SlotHour(slotIdx)
                  /\ route_stats[n].pickup_day = SlotDay(slotIdx)
                  /\ route_stats[m].BCTCB2010_x = route_stats[n].BCTCB2010_y
                  /\ route_stats[m].BCTCB2010_y = route_stats[n].BCTCB2010_x
                  /\ RankIn(BlockOrder, route_stats[m].BCTCB2010_x)
                         > RankIn(BlockOrder, route_stats[n].BCTCB2010_x)
                  => G'.w[{route_stats[m].BCTCB2010_x, route_stats[m].BCTCB2010_y}]
                         = route_stats[m].avg_travel_time

\* C17: the route-stat rows come out sorted by (hour, weekday, origin,
\* destination) and the edges go in in that order, so that with both (A,B)
\* and (B,A) in a slot the weight of the edge is the average of the row whose
\* origin id sorts higher; the table and the node set are the same for every
\* order of the trips in the input, and each slot graph is built from them
\* alone.
C17_HigherOriginWinsWhateverTheOrder == [][C17_Step]_vars

\* C17 witness: the trips come with the (B,A) trip before the (A,B) trip, B
\* sorting higher, with different travel times, and the slot graph is built.
C17_Witness ==
    /\ SlotBuilt
    /\ Len(df) = 2
    /\ ~df[1].nat /\ ~df[2].nat
    /\ df[1].hour = SlotHour(BuiltSlot) /\ df[1].day = SlotDay(BuiltSlot)
    /\ df[2].hour = df[1].hour /\ df[2].day = df[1].day
    /\ df[1].x = df[2].y /\ df[1].y = df[2].x
    /\ RankIn(BlockOrder, df[1].x) > RankIn(BlockOrder, df[2].x)
    /\ df[1].travel_time # df[2].travel_time
    /\ df[1].travel_time # NaN /\ df[2].travel_time # NaN
    /\ G.w[{df[1].x, df[1].y}] = df[1].travel_time

=============================================================================
